---------------------------- MODULE Spec2Model ----------------------------
(***************************************************************************)
(* A model of script.js, the client script of the A-building 2023 energy   *)
(* dashboard: the embedded dataset, the number formatter, the renderers    *)
(* (summary slots, tip cards, chart), the interaction layer (click pulse,  *)
(* hover tint, reveal observer) and the page-load sequence that runs them. *)
(*                                                                         *)
(* JavaScript runs every callback to completion on one thread, so each     *)
(* callback (DOMContentLoaded handler, timer callback, event listener,     *)
(* observer callback, tick callback) is one action.  The functions of the  *)
(* script are operators from a document state to a document state, so that *)
(* a callback is the composition of the calls it makes, in order.          *)
(*                                                                         *)
(* Numbers: usage is kept in hundredths of a kWh (197563.47 kWh is         *)
(* 19756347), cost in won.  Every number the script formats is a           *)
(* non-negative integer, and formatNumber is modelled on those.            *)
(*                                                                         *)
(* Text: a character outside ASCII is written as its JavaScript escape, so *)
(* that the value of a string here, read as the body of a JavaScript       *)
(* string literal, is the script's string ("1\\uC6D4" is '1\uC6D4', the     *)
(* label of January).                                                      *)
(***************************************************************************)
EXTENDS Integers, Sequences, FiniteSets, TLC

VARIABLES
    dom,          \* the document: slots, tip grid, chart, cards, sections
    phase,        \* position of the page-load sequence
    chartLib,     \* whether the global Chart (Chart.js) is defined
    canvasExclusive, \* whether that Chart refuses a canvas already in use
    timers,       \* pending 150 ms click timers, oldest first (card indices)
    pointerOver,  \* the tip card under the pointer, 0 for none
    ioEntries,    \* the entries of the observer's latest callback
    lastTick      \* the latest axis label a tick callback returned

vars == <<dom, phase, chartLib, canvasExclusive, timers, pointerOver, ioEntries, lastTick>>

---------------------------------------------------------------------------
(* Bounds of the model. *)

\* Pending click timers kept at once.
MaxTimers == 2
\* Elements of class summary-card in the page.
NSummaryCards == 2
\* Direct calls of the renderers in the call-level specification.
MaxCalls == 3
\* Tick values handed to the tick callbacks are m * 10^e, m in 0..MaxMantissa.
MaxMantissa == 5
\* ... and e in 0..MaxExponent.
MaxExponent == 4

---------------------------------------------------------------------------
(* The dataset. *)

energyTips ==
    << [icon |-> "\\uD83D\\uDCA1",
        title |-> "LED \\uC870\\uBA85 \\uC0AC\\uC6A9",
        description |->
          "\\uAE30\\uC874 \\uD615\\uAD11\\uB4F1\\uC744 LED \\uC870\\uBA85\\uC73C\\uB85C \\uAD50\\uCCB4\\uD558\\uC5EC \\uC804\\uB825 \\uC18C\\uBE44\\uB97C 70% \\uC808\\uC57D\\uD560 \\uC218 \\uC788\\uC2B5\\uB2C8\\uB2E4."],
       [icon |-> "\\u2744\\uFE0F",
        title |-> "\\uC801\\uC815 \\uB0C9\\uB09C\\uBC29 \\uC628\\uB3C4 \\uC720\\uC9C0",
        description |->
          "\\uC5EC\\uB984\\uCCA0 26\\u00B0C, \\uACA8\\uC6B8\\uCCA0 20\\u00B0C\\uB85C \\uC124\\uC815\\uD558\\uC5EC \\uC5D0\\uB108\\uC9C0 \\uC0AC\\uC6A9\\uB7C9\\uC744 \\uD06C\\uAC8C \\uC904\\uC77C \\uC218 \\uC788\\uC2B5\\uB2C8\\uB2E4."],
       [icon |-> "\\uD83D\\uDD0C",
        title |-> "\\uB300\\uAE30\\uC804\\uB825 \\uCC28\\uB2E8",
        description |->
          "\\uC0AC\\uC6A9\\uD558\\uC9C0 \\uC54A\\uB294 \\uC804\\uC790\\uAE30\\uAE30\\uC758 \\uD50C\\uB7EC\\uADF8\\uB97C \\uBF51\\uAC70\\uB098 \\uBA40\\uD2F0\\uD0ED \\uC2A4\\uC704\\uCE58\\uB97C \\uAEBC\\uC8FC\\uC138\\uC694."],
       [icon |-> "\\uD83E\\uDE9F",
        title |-> "\\uC790\\uC5F0\\uAD11 \\uD65C\\uC6A9",
        description |->
          "\\uB0AE \\uC2DC\\uAC04\\uC5D0\\uB294 \\uBE14\\uB77C\\uC778\\uB4DC\\uB97C \\uC5F4\\uC5B4 \\uC790\\uC5F0\\uAD11\\uC744 \\uCD5C\\uB300\\uD55C \\uD65C\\uC6A9\\uD558\\uACE0 \\uC870\\uBA85 \\uC0AC\\uC6A9\\uC744 \\uC904\\uC774\\uC138\\uC694."],
       [icon |-> "\\uD83D\\uDDA5\\uFE0F",
        title |-> "\\uCEF4\\uD4E8\\uD130 \\uC808\\uC804\\uBAA8\\uB4DC \\uC124\\uC815",
        description |->
          "\\uCEF4\\uD4E8\\uD130\\uC640 \\uBAA8\\uB2C8\\uD130\\uC758 \\uC808\\uC804\\uBAA8\\uB4DC\\uB97C \\uC124\\uC815\\uD558\\uC5EC \\uBD88\\uD544\\uC694\\uD55C \\uC804\\uB825 \\uC18C\\uBE44\\uB97C \\uBC29\\uC9C0\\uD558\\uC138\\uC694."],
       [icon |-> "\\uD83D\\uDEAA",
        title |-> "\\uCD9C\\uC785\\uBB38 \\uAD00\\uB9AC",
        description |->
          "\\uB0C9\\uB09C\\uBC29 \\uD6A8\\uC728\\uC744 \\uB192\\uC774\\uAE30 \\uC704\\uD574 \\uCD9C\\uC785\\uBB38\\uC744 \\uC790\\uC8FC \\uC5F4\\uC5B4\\uB450\\uC9C0 \\uB9D0\\uACE0 \\uC2E0\\uC18D\\uD788 \\uB2EB\\uC544\\uC8FC\\uC138\\uC694."],
       [icon |-> "\\uD83C\\uDF21\\uFE0F",
        title |-> "\\uB2E8\\uC5F4 \\uAC1C\\uC120",
        description |->
          "\\uCC3D\\uBB38\\uACFC \\uBB38\\uD2C8\\uC758 \\uB2E8\\uC5F4\\uC744 \\uAC1C\\uC120\\uD558\\uC5EC \\uB0C9\\uB09C\\uBC29 \\uC5D0\\uB108\\uC9C0 \\uC190\\uC2E4\\uC744 \\uCD5C\\uC18C\\uD654\\uD558\\uC138\\uC694."],
       [icon |-> "\\u23F0",
        title |-> "\\uD53C\\uD06C\\uD0C0\\uC784 \\uC0AC\\uC6A9 \\uC790\\uC81C",
        description |->
          "\\uC804\\uB825 \\uC218\\uC694\\uAC00 \\uB192\\uC740 \\uC2DC\\uAC04\\uB300(\\uC624\\uD6C4 2-5\\uC2DC)\\uC5D0\\uB294 \\uACE0\\uC804\\uB825 \\uAE30\\uAE30 \\uC0AC\\uC6A9\\uC744 \\uC790\\uC81C\\uD558\\uC138\\uC694."],
       [icon |-> "\\uD83D\\uDD04",
        title |-> "\\uC815\\uAE30\\uC801\\uC778 \\uC124\\uBE44 \\uC810\\uAC80",
        description |->
          "\\uC5D0\\uC5B4\\uCEE8 \\uD544\\uD130 \\uCCAD\\uC18C, \\uC124\\uBE44 \\uC810\\uAC80\\uC744 \\uD1B5\\uD574 \\uC5D0\\uB108\\uC9C0 \\uD6A8\\uC728\\uC744 \\uCD5C\\uC801\\uD654\\uD558\\uC138\\uC694."],
       [icon |-> "\\uD83D\\uDCCA",
        title |-> "\\uC5D0\\uB108\\uC9C0 \\uC0AC\\uC6A9\\uB7C9 \\uBAA8\\uB2C8\\uD130\\uB9C1",
        description |->
          "\\uC815\\uAE30\\uC801\\uC73C\\uB85C \\uC804\\uB825 \\uC0AC\\uC6A9\\uB7C9\\uC744 \\uD655\\uC778\\uD558\\uACE0 \\uC808\\uC57D \\uBAA9\\uD45C\\uB97C \\uC124\\uC815\\uD558\\uC5EC \\uAD00\\uB9AC\\uD558\\uC138\\uC694."] >>

\* The object literal's properties in source order.  A key is the integer its
\* canonical numeric string denotes; usage is in hundredths of a kWh.
monthlyData ==
    << [key |-> 1,  usage |-> 19756347, cost |-> 55366215],
       [key |-> 2,  usage |-> 17779608, cost |-> 49819485],
       [key |-> 3,  usage |-> 14332769, cost |-> 40147655],
       [key |-> 4,  usage |-> 13227706, cost |-> 37046848],
       [key |-> 5,  usage |-> 14338393, cost |-> 40163436],
       [key |-> 6,  usage |-> 13799568, cost |-> 38651493],
       [key |-> 7,  usage |-> 19180146, cost |-> 53749395],
       [key |-> 8,  usage |-> 20264301, cost |-> 56791534],
       [key |-> 9,  usage |-> 13476035, cost |-> 37743659],
       [key |-> 10, usage |-> 14206813, cost |-> 39794222],
       [key |-> 11, usage |-> 13803370, cost |-> 38662161],
       [key |-> 12, usage |-> 13867647, cost |-> 38842522] >>

---------------------------------------------------------------------------
(* Numbers and strings. *)

DigitChar == <<"0", "1", "2", "3", "4", "5", "6", "7", "8", "9">>

\* String(n) for a non-negative integer: its decimal digits, ungrouped.
RECURSIVE NumberToString(_)
NumberToString(n) ==
    IF n < 10 THEN DigitChar[n + 1]
    ELSE NumberToString(n \div 10) \o DigitChar[(n % 10) + 1]

\* Three digits, zero-padded: a group after the first.
Group3(n) ==
    DigitChar[(n \div 100) + 1] \o DigitChar[((n \div 10) % 10) + 1]
        \o DigitChar[(n % 10) + 1]

\* Intl.NumberFormat('ko-KR').format(num) for a non-negative integer: groups of
\* three digits from the right, separated by commas.
RECURSIVE formatNumber(_)
formatNumber(num) ==
    IF num < 1000 THEN NumberToString(num)
    ELSE formatNumber(num \div 1000) \o "," \o Group3(num % 1000)

\* Math.round(x / unit) for a non-negative integer x: halves round up.
RoundDiv(x, unit) == (2 * x + unit) \div (2 * unit)

\* Object.values(obj): integer keys come in ascending numeric order.
RECURSIVE SortByKey(_)
SortByKey(props) ==
    IF props = <<>> THEN <<>>
    ELSE LET least == CHOOSE i \in 1..Len(props) :
                          \A j \in 1..Len(props) : props[i].key <= props[j].key
         IN  <<props[least]>> \o
             SortByKey(SubSeq(props, 1, least - 1)
                       \o SubSeq(props, least + 1, Len(props)))

ObjectValues(obj) == SortByKey(obj)

\* 10^e.
RECURSIVE Pow10(_)
Pow10(e) == IF e = 0 THEN 1 ELSE 10 * Pow10(e - 1)

\* How many times a function of the script has been called.
Calls(d, name) == Cardinality({i \in 1..Len(d.callLog) : d.callLog[i] = name})

\* The call is entered in the document's call log (a history of the calls made,
\* in order; the script keeps no such log).
Logged(d, name) == [d EXCEPT !.callLog = Append(@, name)]

---------------------------------------------------------------------------
(* The page the script runs on.  index.html gives the elements the script   *)
(* looks up: the four summary slots, the tip grid, the chart canvas and its *)
(* container, the summary cards and the two animated sections.              *)

SlotIds == {"total-usage", "total-cost", "avg-usage", "avg-cost"}

\* What a slot holds before the script writes it: empty, or a placeholder.
SlotPlaceholders == {"", "-"}

SummaryCards == 1..NSummaryCards

\* The elements matching '.chart-section, .tips-section'.
Sections == {"chart-section", "tips-section"}

NoChart == [built |-> FALSE, labels |-> <<>>, usageData |-> <<>>, costData |-> <<>>]

InitialDom(placeholder) ==
    [ text        |-> [id \in SlotIds |-> placeholder],
      tipsGrid    |-> <<>>,
      chartHeight |-> "",
      chart       |-> NoChart,
      card        |-> [c \in SummaryCards |-> [transform |-> "", click |-> FALSE]],
      section     |-> [s \in Sections |->
                         [opacity |-> "", transform |-> "", transition |-> "",
                          observed |-> FALSE]],
      callLog     |-> <<>>,
      exc         |-> "",
      uncaught    |-> {} ]

\* Statement sequencing in a callback: next, the document after the next
\* statement has run on d, is reached only if d has no exception in flight.
Then(d, next) == IF d.exc # "" THEN d ELSE next

\* The callback returns: an exception still in flight is reported as uncaught.
EndCallback(d) ==
    [d EXCEPT !.exc = "",
              !.uncaught = IF d.exc = "" THEN @ ELSE @ \cup {d.exc}]

---------------------------------------------------------------------------
(* The functions of the script. *)

\* One tip card; index is forEach's zero-based index, and the animation delay
\* (index * 0.1 seconds) is kept in tenths of a second.
TipCard(tip, index) ==
    [ className       |-> "tip-card",
      animationDelay  |-> index,
      icon            |-> tip.icon,
      title           |-> tip.title,
      description     |-> tip.description,
      backgroundColor |-> "",
      hover           |-> FALSE ]

createTipCards(d) ==
    [Logged(d, "createTipCards") EXCEPT
        !.tipsGrid = @ \o [i \in 1..Len(energyTips) |-> TipCard(energyTips[i], i - 1)]]

months ==
    << "1\\uC6D4", "2\\uC6D4", "3\\uC6D4", "4\\uC6D4", "5\\uC6D4", "6\\uC6D4",
       "7\\uC6D4", "8\\uC6D4", "9\\uC6D4", "10\\uC6D4", "11\\uC6D4", "12\\uC6D4" >>

\* Math.round(data.usage), usage being in hundredths of a kWh.
RoundUsage(data) == RoundDiv(data.usage, 100)

\* Math.round(data.cost / 1000000).
RoundCostMillions(data) == RoundDiv(data.cost, 1000000)

\* createChart with Math.floor in place of Math.round.
createChartFloor(d) ==
    IF ~chartLib
    THEN [Logged(d, "createChart") EXCEPT !.exc = "ReferenceError"]
    ELSE IF d.chart.built /\ canvasExclusive
    THEN [Logged(d, "createChart") EXCEPT !.exc = "Error"]
    ELSE [Logged(d, "createChart") EXCEPT
             !.chart = [ built     |-> TRUE,
                         labels    |-> months,
                         usageData |-> [i \in 1..Len(monthlyData) |->
                                          ObjectValues(monthlyData)[i].usage \div 100],
                         costData  |-> [i \in 1..Len(monthlyData) |->
                                          ObjectValues(monthlyData)[i].cost \div 1000000] ]]

\* new Chart(...) throws a ReferenceError when Chart.js has not been loaded.
\* On a canvas that already holds a chart it builds the chart again from the
\* same data, or throws an Error ("Canvas is already in use") when the loaded
\* Chart.js refuses that; which one is loaded is the page's choice.
createChart(d) ==
    IF ~chartLib
    THEN [Logged(d, "createChart") EXCEPT !.exc = "ReferenceError"]
    ELSE IF d.chart.built /\ canvasExclusive
    THEN [Logged(d, "createChart") EXCEPT !.exc = "Error"]
    ELSE [Logged(d, "createChart") EXCEPT
             !.chart = [ built     |-> TRUE,
                         labels    |-> months,
                         usageData |-> [i \in 1..Len(monthlyData) |->
                                          RoundUsage(ObjectValues(monthlyData)[i])],
                         costData  |-> [i \in 1..Len(monthlyData) |->
                                          RoundCostMillions(ObjectValues(monthlyData)[i])] ]]

\* scales.y.ticks.callback
yTickCallback(value) == formatNumber(value) \o " kWh"

\* scales.y1.ticks.callback: the value's own string, ungrouped, and the unit
y1TickCallback(value) == NumberToString(value) \o "\\uBC31\\uB9CC\\uC6D0"

\* The constants of updateSummaryData; the usages are in hundredths of a kWh.
totalUsage == 188032703
totalCost == 526778625
avgUsage == 15669392
avgCost == 43898219

\* updateSummaryData with the average cost cut off instead of rounded.
updateSummaryDataStale(d) ==
    [Logged(d, "updateSummaryData") EXCEPT
        !.text = [id \in SlotIds |->
            CASE id = "total-usage" -> formatNumber(RoundDiv(totalUsage, 100)) \o " kWh"
              [] id = "total-cost"  -> formatNumber(totalCost) \o " \\uC6D0"
              [] id = "avg-usage"   -> formatNumber(RoundDiv(avgUsage, 100)) \o " kWh"
              [] id = "avg-cost"    -> formatNumber(avgCost - 1) \o " \\uC6D0"]]

\* updateSummaryData appending to the slots instead of assigning them.
updateSummaryDataAppending(d) ==
    [Logged(d, "updateSummaryData") EXCEPT
        !.text = [id \in SlotIds |->
            CASE id = "total-usage" -> @[id] \o formatNumber(RoundDiv(totalUsage, 100)) \o " kWh"
              [] id = "total-cost"  -> @[id] \o formatNumber(totalCost) \o " \\uC6D0"
              [] id = "avg-usage"   -> @[id] \o formatNumber(RoundDiv(avgUsage, 100)) \o " kWh"
              [] id = "avg-cost"    -> @[id] \o formatNumber(avgCost) \o " \\uC6D0"]]

updateSummaryData(d) ==
    [Logged(d, "updateSummaryData") EXCEPT
        !.text = [id \in SlotIds |->
            CASE id = "total-usage" -> formatNumber(RoundDiv(totalUsage, 100)) \o " kWh"
              [] id = "total-cost"  -> formatNumber(totalCost) \o " \\uC6D0"
              [] id = "avg-usage"   -> formatNumber(RoundDiv(avgUsage, 100)) \o " kWh"
              [] id = "avg-cost"    -> formatNumber(avgCost) \o " \\uC6D0"]]

\* Listeners go to the summary cards and to the tip cards the grid holds now.
addCardInteractions(d) ==
    [Logged(d, "addCardInteractions") EXCEPT
        !.card = [c \in SummaryCards |-> [@[c] EXCEPT !.click = TRUE]],
        !.tipsGrid = [i \in 1..Len(@) |-> [@[i] EXCEPT !.hover = TRUE]]]

\* The click listener of a summary card.
onCardClick(d, c) == [d EXCEPT !.card[c].transform = "scale(0.95)"]

\* The 150 ms timer callback of a click.
onCardTimeout(d, c) == [d EXCEPT !.card[c].transform = ""]

\* The mouseenter listener of a tip card.
onMouseEnter(d, i) == [d EXCEPT !.tipsGrid[i].backgroundColor = "#f8f9ff"]

\* The mouseleave listener of a tip card.
onMouseLeave(d, i) == [d EXCEPT !.tipsGrid[i].backgroundColor = ""]

\* The observer callback hiding a section again when it stops intersecting.
observerCallbackToggle(d, entries) ==
    [d EXCEPT !.section = [s \in Sections |->
        IF \E e \in entries : e.target = s /\ e.isIntersecting
        THEN [@[s] EXCEPT !.opacity = "1", !.transform = "translateY(0)"]
        ELSE IF \E e \in entries : e.target = s
        THEN [@[s] EXCEPT !.opacity = "0", !.transform = "translateY(30px)"]
        ELSE @[s]]]

\* The IntersectionObserver callback; entries is a set of
\* [target, isIntersecting] records.
observerCallback(d, entries) ==
    [d EXCEPT !.section = [s \in Sections |->
        IF \E e \in entries : e.target = s /\ e.isIntersecting
        THEN [@[s] EXCEPT !.opacity = "1", !.transform = "translateY(0)"]
        ELSE @[s]]]

addScrollAnimations(d) ==
    [Logged(d, "addScrollAnimations") EXCEPT
        !.section = [s \in Sections |->
            [ opacity    |-> "0",
              transform  |-> "translateY(30px)",
              transition |-> "opacity 0.6s ease, transform 0.6s ease",
              observed   |-> TRUE ]]]

setChartHeight(d) == [Logged(d, "setChartHeight") EXCEPT !.chartHeight = "400px"]


---------------------------------------------------------------------------
(* The page load and the events after it. *)

Init ==
    /\ \E placeholder \in SlotPlaceholders : dom = InitialDom(placeholder)
    /\ phase = "loading"
    /\ chartLib \in BOOLEAN
    /\ canvasExclusive \in (IF chartLib THEN BOOLEAN ELSE {FALSE})
    /\ timers = <<>>
    /\ pointerOver = 0
    /\ ioEntries = {}
    /\ lastTick = [axis |-> "", value |-> 0, label |-> ""]

\* The listener with no timer, the chart built first.
DOMContentLoadedChartFirst ==
    /\ phase = "loading"
    /\ LET d1 == createChart(dom)
           d2 == Then(d1, updateSummaryData(d1))
           d3 == Then(d2, createTipCards(d2))
           d4 == Then(d3, setChartHeight(d3))
           d5 == Then(d4, addCardInteractions(d4))
           d6 == Then(d5, addScrollAnimations(d5))
       IN  dom' = EndCallback(d6)
    /\ phase' = "done"
    /\ UNCHANGED <<chartLib, canvasExclusive, timers, pointerOver, ioEntries, lastTick>>

\* The listener attaching the card listeners before the tip cards exist.
DOMContentLoadedInteractionsFirst ==
    /\ phase = "loading"
    /\ LET d1 == updateSummaryData(dom)
           d2 == Then(d1, addCardInteractions(d1))
           d3 == Then(d2, createTipCards(d2))
           d4 == Then(d3, setChartHeight(d3))
       IN  dom' = EndCallback(d4)
    /\ phase' = "scheduled"
    /\ UNCHANGED <<chartLib, canvasExclusive, timers, pointerOver, ioEntries, lastTick>>

\* The DOMContentLoaded listener: the three renderers, then the 100 ms timer.
DOMContentLoaded ==
    /\ phase = "loading"
    /\ LET d1 == updateSummaryData(dom)
           d2 == Then(d1, createTipCards(d1))
           d3 == Then(d2, setChartHeight(d2))
       IN  dom' = EndCallback(d3)
    /\ phase' = "scheduled"
    /\ UNCHANGED <<chartLib, canvasExclusive, timers, pointerOver, ioEntries, lastTick>>

\* The callback of the 100 ms timer.
LoadTimeout ==
    /\ phase = "scheduled"
    /\ LET d1 == createChart(dom)
           d2 == Then(d1, addCardInteractions(d1))
           d3 == Then(d2, addScrollAnimations(d2))
       IN  dom' = EndCallback(d3)
    /\ phase' = "done"
    /\ UNCHANGED <<chartLib, canvasExclusive, timers, pointerOver, ioEntries, lastTick>>

\* A click on a summary card that has its listener: the card is scaled down and
\* a 150 ms timer is set.
Click(c) ==
    /\ dom.card[c].click
    /\ Len(timers) < MaxTimers
    /\ dom' = EndCallback(onCardClick(dom, c))
    /\ timers' = Append(timers, c)
    /\ UNCHANGED <<phase, chartLib, canvasExclusive, pointerOver, ioEntries, lastTick>>

\* The oldest click timer fires (equal delays fire in the order they were set).
ClickTimeout ==
    /\ timers # <<>>
    /\ dom' = EndCallback(onCardTimeout(dom, Head(timers)))
    /\ timers' = Tail(timers)
    /\ UNCHANGED <<phase, chartLib, canvasExclusive, pointerOver, ioEntries, lastTick>>

\* The pointer enters a tip card; its listener, if attached, tints it.
MouseEnter(i) ==
    /\ pointerOver = 0
    /\ i \in 1..Len(dom.tipsGrid)
    /\ pointerOver' = i
    /\ dom' = IF dom.tipsGrid[i].hover THEN EndCallback(onMouseEnter(dom, i)) ELSE dom
    /\ UNCHANGED <<phase, chartLib, canvasExclusive, timers, ioEntries, lastTick>>

\* The pointer leaves the tip card it is over.
MouseLeave ==
    /\ pointerOver # 0
    /\ pointerOver' = 0
    /\ dom' = IF dom.tipsGrid[pointerOver].hover
              THEN EndCallback(onMouseLeave(dom, pointerOver)) ELSE dom
    /\ UNCHANGED <<phase, chartLib, canvasExclusive, timers, ioEntries, lastTick>>

\* The entry lists the observer can deliver: one entry for each of some of the
\* observed sections.
EntryLists ==
    LET observed == {s \in Sections : dom.section[s].observed}
    IN  { {[target |-> s, isIntersecting |-> f[s]] : s \in T} :
            <<T, f>> \in {<<T, f>> \in (SUBSET observed) \X [Sections -> BOOLEAN] :
                            T # {}} }

\* The observer reports intersection changes.
Intersect(entries) ==
    /\ dom' = EndCallback(observerCallback(dom, entries))
    /\ ioEntries' = entries
    /\ UNCHANGED <<phase, chartLib, canvasExclusive, timers, pointerOver, lastTick>>

Next ==
    \/ DOMContentLoaded
    \/ LoadTimeout
    \/ \E c \in SummaryCards : Click(c)
    \/ ClickTimeout
    \/ \E i \in 1..Len(energyTips) : MouseEnter(i)
    \/ MouseLeave
    \/ \E entries \in EntryLists : Intersect(entries)

Spec == Init /\ [][Next]_vars

---------------------------------------------------------------------------
(* The functions called directly, any number of times and in any order, and *)
(* the chart library calling the tick callbacks of a chart that was built.  *)

CallUpdateSummaryData ==
    /\ Len(dom.callLog) < MaxCalls
    /\ dom' = EndCallback(updateSummaryData(dom))
    /\ UNCHANGED <<phase, chartLib, canvasExclusive, timers, pointerOver, ioEntries, lastTick>>

CallCreateTipCards ==
    /\ Len(dom.callLog) < MaxCalls
    /\ dom' = EndCallback(createTipCards(dom))
    /\ UNCHANGED <<phase, chartLib, canvasExclusive, timers, pointerOver, ioEntries, lastTick>>

CallSetChartHeight ==
    /\ Len(dom.callLog) < MaxCalls
    /\ dom' = EndCallback(setChartHeight(dom))
    /\ UNCHANGED <<phase, chartLib, canvasExclusive, timers, pointerOver, ioEntries, lastTick>>

CallCreateChart ==
    /\ Len(dom.callLog) < MaxCalls
    /\ dom' = EndCallback(createChart(dom))
    /\ UNCHANGED <<phase, chartLib, canvasExclusive, timers, pointerOver, ioEntries, lastTick>>

TickValues == {m * Pow10(e) : m \in 0..MaxMantissa, e \in 0..MaxExponent}

\* The chart labels a tick of the left axis.
TickY(value) ==
    /\ dom.chart.built
    /\ lastTick' = [axis |-> "y", value |-> value, label |-> yTickCallback(value)]
    /\ UNCHANGED <<dom, phase, chartLib, canvasExclusive, timers, pointerOver, ioEntries>>

\* The chart labels a tick of the right axis.
TickY1(value) ==
    /\ dom.chart.built
    /\ lastTick' = [axis |-> "y1", value |-> value, label |-> y1TickCallback(value)]
    /\ UNCHANGED <<dom, phase, chartLib, canvasExclusive, timers, pointerOver, ioEntries>>

NextCalls ==
    \/ CallUpdateSummaryData
    \/ CallCreateTipCards
    \/ CallSetChartHeight
    \/ CallCreateChart
    \/ \E value \in TickValues : TickY(value)
    \/ \E value \in TickValues : TickY1(value)

SpecCalls == Init /\ [][NextCalls]_vars

---------------------------------------------------------------------------
(* Properties. *)

\* The sum of a sequence of numbers.
RECURSIVE SumOf(_)
SumOf(seq) == IF seq = <<>> THEN 0 ELSE Head(seq) + SumOf(Tail(seq))

Usages == [i \in 1..Len(monthlyData) |-> monthlyData[i].usage]
Costs == [i \in 1..Len(monthlyData) |-> monthlyData[i].cost]

\* The record of month m.
MonthRecord(m) ==
    monthlyData[CHOOSE i \in 1..Len(monthlyData) : monthlyData[i].key = m]

\* The annual summary computed from the twelve monthly records, as displayed.
DerivedSummary ==
    [id \in SlotIds |->
        CASE id = "total-usage" ->
                 formatNumber(RoundDiv(SumOf(Usages), 100)) \o " kWh"
          [] id = "total-cost" ->
                 formatNumber(SumOf(Costs)) \o " \\uC6D0"
          [] id = "avg-usage" ->
                 formatNumber(RoundDiv(SumOf(Usages), 100 * 12)) \o " kWh"
          [] id = "avg-cost" ->
                 formatNumber(RoundDiv(SumOf(Costs), 12)) \o " \\uC6D0"]

\* The four figures as README.md prints them, with the script's unit suffixes.
ReadmeSummary ==
    [id \in SlotIds |->
        CASE id = "total-usage" -> "1,880,327 kWh"
          [] id = "total-cost"  -> "526,778,625 \\uC6D0"
          [] id = "avg-usage"   -> "156,694 kWh"
          [] id = "avg-cost"    -> "43,898,219 \\uC6D0"]

\* The grid shows exactly the tips, one card each, in input order.
OneCardPerTip ==
    /\ Len(dom.tipsGrid) = Len(energyTips)
    /\ \A i \in 1..Len(energyTips) :
          /\ dom.tipsGrid[i].icon = energyTips[i].icon
          /\ dom.tipsGrid[i].title = energyTips[i].title
          /\ dom.tipsGrid[i].description = energyTips[i].description

\* createChart was called and threw.
ChartFailed == Calls(dom, "createChart") >= 1 /\ "ReferenceError" \in dom.uncaught

Revealed(s) == dom.section[s].observed /\ dom.section[s].opacity = "1"
Hidden(s) == dom.section[s].observed /\ dom.section[s].opacity = "0"

EarlyCalls == {"updateSummaryData", "createTipCards", "setChartHeight"}
LateCalls == {"createChart", "addCardInteractions", "addScrollAnimations"}

\* C1: after one or more calls of createTipCards the tip grid holds exactly
\* one card per tip, in input order (10 cards after two calls, not 20).
TipRenderIdempotent ==
    Calls(dom, "createTipCards") >= 1 => OneCardPerTip

\* C2: once updateSummaryData has run, the four slots show the summary derived
\* from the twelve monthly records: round(sum of usage), sum of cost,
\* round(sum of usage / 12) and round(sum of cost / 12), formatted.
SummaryMatchesMonthlyData ==
    Calls(dom, "updateSummaryData") >= 1 => dom.text = DerivedSummary

SummaryMatchesWitness ==
    /\ phase = "done"
    /\ Calls(dom, "updateSummaryData") = 1
    /\ dom.text["avg-cost"] = "43,898,219 \\uC6D0"
    /\ dom.text["total-usage"] = "1,880,327 kWh"

\* C3: a built chart is the projection of the twelve records in month order:
\* label i is "<i>" followed by the month sign, bar i is round(usage of month
\* i), line point i is round(cost of month i / 1,000,000); January's is 55.
ChartIsProjection ==
    dom.chart.built =>
        /\ Len(dom.chart.labels) = 12
        /\ Len(dom.chart.usageData) = 12
        /\ Len(dom.chart.costData) = 12
        /\ \A m \in 1..12 :
              /\ dom.chart.labels[m] = NumberToString(m) \o "\\uC6D4"
              /\ 100 * dom.chart.usageData[m] - 50 <= MonthRecord(m).usage
              /\ MonthRecord(m).usage < 100 * dom.chart.usageData[m] + 50
              /\ 1000000 * dom.chart.costData[m] - 500000 <= MonthRecord(m).cost
              /\ MonthRecord(m).cost < 1000000 * dom.chart.costData[m] + 500000
        /\ dom.chart.costData[1] = 55

ChartIsProjectionWitness ==
    /\ dom.chart.built
    /\ dom.chart.usageData[3] = 143328
    /\ dom.chart.costData[6] = 39
    /\ dom.chart.labels[12] = "12\\uC6D4"

\* C4: when the page-load sequence has finished with the chart failed, the four
\* summary slots are populated and every tip card is present.
ChartFailureKeepsSummaryAndTips ==
    (phase = "done" /\ ChartFailed) =>
        /\ dom.text = ReadmeSummary
        /\ OneCardPerTip
        /\ dom.chartHeight = "400px"

ChartFailureWitness ==
    /\ phase = "done"
    /\ ChartFailed
    /\ ~dom.chart.built
    /\ Len(dom.tipsGrid) = 10
    /\ dom.text["total-cost"] = "526,778,625 \\uC6D0"

\* C5: when the page-load sequence has finished with the chart failed, the
\* click and hover listeners are attached and the sections are observed.
ChartFailureKeepsInteractions ==
    (phase = "done" /\ ChartFailed) =>
        /\ \A c \in SummaryCards : dom.card[c].click
        /\ \A i \in 1..Len(dom.tipsGrid) : dom.tipsGrid[i].hover
        /\ \A s \in Sections : dom.section[s].observed

\* C6: an observed section is hidden or revealed; it starts hidden when it is
\* first observed; an entry reporting it intersecting reveals it; it leaves
\* the hidden state only by such an entry; and once revealed it stays
\* revealed, whatever the later entries (not intersecting included).
RevealIsOneShotLatch ==
    /\ [](\A s \in Sections :
            /\ dom.section[s].observed => (Hidden(s) \/ Revealed(s))
            /\ \A e \in ioEntries :
                  (e.target = s /\ e.isIntersecting) => Revealed(s))
    /\ [][\A s \in Sections :
            /\ (~dom.section[s].observed /\ dom'.section[s].observed)
                  => dom'.section[s].opacity = "0"
            /\ (Hidden(s) /\ dom'.section[s].opacity # "0")
                  => \E e \in ioEntries' : e.target = s /\ e.isIntersecting
            /\ Revealed(s)
                  => (dom'.section[s].observed /\ dom'.section[s].opacity = "1")]_vars

RevealLatchWitness ==
    \E s \in Sections :
        /\ Revealed(s)
        /\ dom.section[s].transform = "translateY(0)"
        /\ [target |-> s, isIntersecting |-> FALSE] \in ioEntries

\* C7: however many times updateSummaryData has been called, the four slots
\* hold the same four texts as after one call, and a call changes nothing of
\* the display but the slots.
SummaryRenderIdempotent ==
    /\ [](Calls(dom, "updateSummaryData") >= 1 => dom.text = ReadmeSummary)
    /\ [][Calls(dom', "updateSummaryData") > Calls(dom, "updateSummaryData") =>
            /\ dom'.tipsGrid = dom.tipsGrid
            /\ dom'.chartHeight = dom.chartHeight
            /\ dom'.chart = dom.chart
            /\ dom'.card = dom.card
            /\ dom'.section = dom.section]_vars

SummaryTwiceWitness ==
    /\ Calls(dom, "updateSummaryData") = 2
    /\ dom.text["total-usage"] = "1,880,327 kWh"
    /\ dom.text["avg-usage"] = "156,694 kWh"

\* C8: the label of a tick v is formatNumber(v) and the kWh suffix on the left
\* axis, formatNumber(v) and the million-won suffix on the right axis.
TicksReuseFormatter ==
    /\ lastTick.axis = "y" =>
          lastTick.label = formatNumber(lastTick.value) \o " kWh"
    /\ lastTick.axis = "y1" =>
          lastTick.label = formatNumber(lastTick.value) \o "\\uBC31\\uB9CC\\uC6D0"

\* C9: no call of createChart, addCardInteractions or addScrollAnimations
\* comes before updateSummaryData, createTipCards and setChartHeight have all
\* been called, and once the listeners are attached every one of the ten tip
\* cards exists and has its hover listeners.
InteractionAfterPopulation ==
    /\ \A i \in 1..Len(dom.callLog) :
          dom.callLog[i] \in LateCalls =>
              \A f \in EarlyCalls : \E j \in 1..(i - 1) : dom.callLog[j] = f
    /\ \A i, j \in 1..Len(dom.callLog) :
          (dom.callLog[i] \in LateCalls /\ dom.callLog[j] \in EarlyCalls) => j < i
    /\ Calls(dom, "addCardInteractions") >= 1 =>
          /\ Len(dom.tipsGrid) = Len(energyTips)
          /\ \A i \in 1..Len(dom.tipsGrid) : dom.tipsGrid[i].hover

InteractionWitness ==
    /\ Calls(dom, "addCardInteractions") = 1
    /\ Len(dom.tipsGrid) = 10
    /\ dom.tipsGrid[10].hover
    /\ pointerOver = 10
    /\ dom.tipsGrid[10].backgroundColor = "#f8f9ff"

\* C10: a card with a click timer pending is scaled down (the latest click's
\* pulse lasts until its own timer fires), and a card with none is at rest.
PulseLastsUntilOwnTimer ==
    \A c \in SummaryCards :
        IF \E k \in 1..Len(timers) : timers[k] = c
        THEN dom.card[c].transform = "scale(0.95)"
        ELSE dom.card[c].transform = ""

=============================================================================
